---- MODULE Spec2Model ----
(***************************************************************************)
(* Model of the expression compiler of beet-pointers / bolt-expressions.   *)
(*                                                                         *)
(* Two revisions of the lowering code live in the repository:              *)
(*   - src/pointers/operations.py + src/pointers/optimizer.py (older):     *)
(*     integer operands become ConstantScoreSource, every arithmetic       *)
(*     node takes a fresh temp from a process-wide counter;                *)
(*   - src/bolt_expressions/operations.py + node.py (newer): integer       *)
(*     operands become Literal, the former operand's temp is reused, the   *)
(*     temp counter is reset per resolve.                                  *)
(* Four specifications share the variables:                                *)
(*   - CompileSpec: one assignment lowered by either revision's unroll     *)
(*     and optimized;                                                      *)
(*   - RulesSpec: the optimizer and its rules on arbitrary operation       *)
(*     lists;                                                              *)
(*   - SessionSpec: one compilation session of Expression (resolve,        *)
(*     const creation, init, generate_init);                               *)
(*   - AstSpec: ConstantScoreChecker on one command, then generate_init.   *)
(* Strings are modelled as sequences of one-character strings so that      *)
(* formatting and parsing of holders are real conversions.                 *)
(***************************************************************************)
EXTENDS Integers, Sequences, FiniteSets, TLC

\* ------------------------------------------------------------------------
\* Strings, decimal formatting and parsing (Python f"{n}" and int(s))
\* ------------------------------------------------------------------------

Digits == <<"0", "1", "2", "3", "4", "5", "6", "7", "8", "9">>

DigitChars == {Digits[i] : i \in 1..10}

DigitVal(c) == (CHOOSE i \in 1..10 : Digits[i] = c) - 1

RECURSIVE FormatNat(_)
\* Python's decimal rendering of a natural number: no sign, no leading zero.
FormatNat(n) ==
    IF n < 10 THEN <<Digits[n + 1]>>
    ELSE FormatNat(n \div 10) \o <<Digits[(n % 10) + 1]>>

\* f"{value}" for an int: a minus sign for negatives, never a plus sign.
FormatInt(n) == IF n < 0 THEN <<"-">> \o FormatNat(0 - n) ELSE FormatNat(n)

RECURSIVE ParseNat(_, _)
\* The value of a run of decimal digits, leading zeros allowed.
ParseNat(s, acc) ==
    IF s = <<>> THEN acc ELSE ParseNat(Tail(s), acc * 10 + DigitVal(Head(s)))

\* Whether Python's int(s) accepts s: an optional sign and at least one digit.
IsIntText(s) ==
    LET body == IF s # <<>> /\ Head(s) \in {"+", "-"} THEN Tail(s) ELSE s
    IN  body # <<>> /\ \A i \in 1..Len(body) : body[i] \in DigitChars

\* int(s) for a text IsIntText accepts.
ParseInt(s) ==
    IF Head(s) = "-" THEN 0 - ParseNat(Tail(s), 0)
    ELSE IF Head(s) = "+" THEN ParseNat(Tail(s), 0)
    ELSE ParseNat(s, 0)

\* ------------------------------------------------------------------------
\* Bounds and input alphabets
\* ------------------------------------------------------------------------

\* Largest number of operator nodes in an input expression.
MaxOps == 2

\* The arithmetic operation classes of both revisions' operations.py.
ArithOps == {"Add", "Subtract", "Multiply", "Divide", "Modulus"}

\* Operation classes (isinstance(x, Operation)).
OperationClasses == ArithOps \cup {"Set"}

\* A user score leaf: ScoreSource(holder, objective).
ScoreSource(holder, objective) ==
    [cls |-> "ScoreSource", scoreholder |-> holder, objective |-> objective]

\* A host integer before any create() has wrapped it.
IntOperand(v) == [cls |-> "int", value |-> v]

ScoreA == ScoreSource(<<"a">>, "obj")

ScoreB == ScoreSource(<<"b">>, "obj")

\* Leaves an input expression is built from, and the destinations of Set.
LeafScores == {ScoreA}

LeafInts == {IntOperand(-2)}

DstScores == {ScoreA, ScoreB}

\* Values the user scores may hold when the emitted commands run.
ScoreValues == {-3, 0, 7}

\* Where the older revision's process-wide temp counter may stand when an
\* expression is lowered: a fresh process, or one that has lowered other
\* expressions before.
StartCounts == {0, 3}

\* A user-level expression: a leaf, or [op, l, r] as written with the host
\* operators.  Python folds an operator applied to two ints itself, so such
\* a node never reaches the library.
UNode(op, l, r) == [cls |-> "U", op |-> op, l |-> l, r |-> r]

RECURSIVE UserExprs(_, _)
\* The expressions with exactly n operator nodes drawn from ops.
UserExprs(ops, n) ==
    IF n = 0 THEN LeafScores \cup LeafInts
    ELSE UNION { { UNode(op, l, r) :
                      op \in ops, l \in UserExprs(ops, k), r \in UserExprs(ops, n - 1 - k) }
                 : k \in 0..(n - 1) }
         \ { UNode(op, l, r) : op \in ops, l \in LeafInts, r \in LeafInts }

\* The operator the deepest input expressions are built with: create()
\* never swaps its operands, so nesting on either side is lowered as
\* written.
DeepOps == {"Subtract"}

\* The input expressions: every tree of up to MaxOps operator nodes over
\* the five operators (a bare integer included: it is a legal right-hand
\* side of Set), and the trees with one operator node more over DeepOps.
AllUserExprs ==
    UNION { UserExprs(ArithOps, n) : n \in 0..MaxOps }
        \cup UserExprs(DeepOps, MaxOps + 1)

\* ------------------------------------------------------------------------
\* Older revision: src/pointers/operations.py
\* ------------------------------------------------------------------------

IsOperation(x) == x.cls \in OperationClasses

\* isinstance(x, ExpressionNode): everything but a bare host integer.
IsExpressionNode(x) == x.cls # "int"

\* ConstantScoreSource.create(value): holder f"${int(value)}", objective
\* "constant".
ConstantScoreSource_create(value) ==
    [cls |-> "ConstantScoreSource",
     scoreholder |-> <<"$">> \o FormatInt(value),
     objective |-> "constant"]

\* TempScoreSource.create(): holder f"$i{n}" for the next n of the
\* process-wide count(), objective "temp".
Ptr_TempScoreSource_create(n) ==
    [cls |-> "TempScoreSource",
     scoreholder |-> <<"$", "i">> \o FormatNat(n),
     objective |-> "temp"]

\* An operation node: [cls, former, latter].
Op(cls, former, latter) == [cls |-> cls, former |-> former, latter |-> latter]

\* Operation.create: bare integers become constant scores.
Ptr_Operation_create(cls, former, latter) ==
    Op(cls,
       IF IsExpressionNode(former) THEN former
       ELSE ConstantScoreSource_create(former.value),
       IF IsExpressionNode(latter) THEN latter
       ELSE ConstantScoreSource_create(latter.value))

\* Add.create / Multiply.create: the operation operand goes first.
Ptr_Commutative_create(cls, former, latter) ==
    IF ~IsOperation(former) /\ IsOperation(latter)
    THEN Ptr_Operation_create(cls, latter, former)
    ELSE Ptr_Operation_create(cls, former, latter)

\* cls.create(former, latter) with the class's own override, if any.
Ptr_create(cls, former, latter) ==
    IF cls \in {"Add", "Multiply"}
    THEN Ptr_Commutative_create(cls, former, latter)
    ELSE Ptr_Operation_create(cls, former, latter)

RECURSIVE Ptr_Build(_)
\* The tree the host operators (__add__, __rsub__, ...) build for a user
\* expression: every node goes through its class's create.
Ptr_Build(u) ==
    IF u.cls = "U" THEN Ptr_create(u.op, Ptr_Build(u.l), Ptr_Build(u.r))
    ELSE u

\* The result of draining an unroll() generator: the operations yielded,
\* the source yielded last, and the temp counter afterwards.
Unrolled(ops, var, n) == [ops |-> ops, var |-> var, n |-> n]

\* Operation.unroll as it would read without its temp: the operation is
\* applied to whatever former evaluates to.
Ptr_Operation_yield_on_former(cls, f, l) ==
    IF cls # "Set"
    THEN Unrolled(f.ops \o l.ops \o << Ptr_create(cls, f.var, l.var) >>,
                  f.var, l.n)
    ELSE Unrolled(f.ops \o l.ops \o << Ptr_create("Set", f.var, l.var) >>,
                  f.var, l.n)

\* The tail of Operation.unroll once both operands are unrolled (f, l) and
\* the counter stands at l.n: a fresh temp set to former's value, the
\* operation on it, the temp as the node's value.  A Set yields only itself.
Ptr_Operation_yield(cls, f, l) ==
    IF cls # "Set"
    THEN LET temp_var == Ptr_TempScoreSource_create(l.n)
         IN  Unrolled(
                f.ops \o l.ops \o
                    << Ptr_create("Set", temp_var, f.var),
                       Ptr_create(cls, temp_var, l.var) >>,
                temp_var, l.n + 1)
    ELSE Unrolled(f.ops \o l.ops \o << Ptr_create("Set", f.var, l.var) >>,
                  f.var, l.n)

RECURSIVE Ptr_unroll(_, _)
\* ExpressionNode.unroll (a leaf yields itself) and Operation.unroll, with
\* the temp counter n threaded through in evaluation order: former's temps,
\* then latter's, then the node's own.
Ptr_unroll(node, n) ==
    IF ~IsOperation(node) THEN Unrolled(<<>>, node, n)
    ELSE LET f == Ptr_unroll(node.former, n)
             l == Ptr_unroll(node.latter, f.n)
         IN  Ptr_Operation_yield(node.cls, f, l)

\* ------------------------------------------------------------------------
\* Older revision: src/pointers/optimizer.py
\* ------------------------------------------------------------------------

\* What a rule hands on: the list it yields, or the exception that ends it.
Yielded(nodes) == [err |-> "none", nodes |-> nodes]

Raised(err) == [err |-> err, nodes |-> <<>>]

\* Marks a get_replaced call that never returns (Python: RecursionError).
NoReturn == [cls |-> "RecursionError"]

RECURSIVE get_replaced(_, _, _)
\* get_replaced(source): follow map until a source that is not a key.  A
\* chain longer than the map has keys has entered a cycle and never ends.
get_replaced(map, source, fuel) ==
    IF source \notin DOMAIN map THEN source
    ELSE IF fuel = 0 THEN NoReturn
    ELSE get_replaced(map, map[source], fuel - 1)

Replaced(map, source) == get_replaced(map, source, Cardinality(DOMAIN map))

\* map[key] = value
MapPut(map, key, value) ==
    [k \in DOMAIN map \cup {key} |-> IF k = key THEN value ELSE map[k]]

\* The test of lines 50-54: a Set whose operands are both temps.
IsTempCopy(node) ==
    /\ node.cls = "Set"
    /\ node.former.cls = "TempScoreSource"
    /\ node.latter.cls = "TempScoreSource"

RECURSIVE temp_var_collapsing_keeps_copy(_, _, _)
\* The loop with the else of line 59 lost: a temp copy is recorded in the
\* map and then yielded, rewritten, like every other node.
temp_var_collapsing_keeps_copy(nodes, map, out) ==
    IF nodes = <<>> THEN Yielded(out)
    ELSE
        LET node == Head(nodes)
            map2 == IF IsTempCopy(node) /\ Replaced(map, node.latter) # NoReturn
                    THEN MapPut(map, node.former, Replaced(map, node.latter))
                    ELSE map
            f == Replaced(map2, node.former)
            l == Replaced(map2, node.latter)
        IN  IF f = NoReturn \/ l = NoReturn THEN Raised("RecursionError")
            ELSE temp_var_collapsing_keeps_copy(
                    Tail(nodes), map2, Append(out, Op(node.cls, f, l)))

RECURSIVE temp_var_collapsing_loop(_, _, _)
\* The loop of temp_var_collapsing over the remaining nodes, with the map
\* and the nodes yielded so far.
temp_var_collapsing_loop(nodes, map, out) ==
    IF nodes = <<>> THEN Yielded(out)
    ELSE
        LET node == Head(nodes) IN
        IF IsTempCopy(node)
        THEN LET replaced_latter == Replaced(map, node.latter)
             IN  IF replaced_latter = NoReturn THEN Raised("RecursionError")
                 ELSE temp_var_collapsing_loop(
                        Tail(nodes), MapPut(map, node.former, replaced_latter), out)
        ELSE LET f == Replaced(map, node.former)
                 l == Replaced(map, node.latter)
             IN  IF f = NoReturn \/ l = NoReturn THEN Raised("RecursionError")
                 ELSE temp_var_collapsing_loop(
                        Tail(nodes), map, Append(out, Op(node.cls, f, l)))

EmptyMap == [k \in {} |-> k]

temp_var_collapsing(nodes) == temp_var_collapsing_loop(nodes, EmptyMap, <<>>)

\* The loop body with the isinstance test lost: the constant latter of
\* any operation becomes an integer.
constant_to_literal_node_any_class(node) ==
    IF node.latter.cls = "ConstantScoreSource"
    THEN Op(node.cls, node.former, IntOperand(ParseInt(Tail(node.latter.scoreholder))))
    ELSE node

\* One node of constant_to_literal_replacement: Set/Add/Subtract with a
\* constant score as latter get int(scoreholder[1:]) instead.
constant_to_literal_node(node) ==
    IF /\ node.cls \in {"Set", "Add", "Subtract"}
       /\ node.latter.cls = "ConstantScoreSource"
    THEN Op(node.cls, node.former, IntOperand(ParseInt(Tail(node.latter.scoreholder))))
    ELSE node

constant_to_literal_replacement(nodes) ==
    IF \E i \in 1..Len(nodes) :
          /\ nodes[i].cls \in {"Set", "Add", "Subtract"}
          /\ nodes[i].latter.cls = "ConstantScoreSource"
          /\ ~IsIntText(Tail(nodes[i].latter.scoreholder))
    THEN Raised("ValueError")
    ELSE Yielded([i \in 1..Len(nodes) |-> constant_to_literal_node(nodes[i])])

print_empty(nodes) == Yielded(nodes)

\* Optimizer.rules after the three @Optimizer.rule registrations.
Optimizer_rules ==
    <<"temp_var_collapsing", "constant_to_literal_replacement", "print_empty">>

\* rule(nodes) for a registered rule.
ApplyRule(rule, nodes) ==
    CASE rule = "temp_var_collapsing" -> temp_var_collapsing(nodes)
      [] rule = "constant_to_literal_replacement" -> constant_to_literal_replacement(nodes)
      [] rule = "print_empty" -> print_empty(nodes)

\* The state of Optimizer.optimize's loop: the nodes (or the exception)
\* so far and the rules that have run.
Threaded(res, applied) ==
    [err |-> res.err, nodes |-> res.nodes, applied |-> applied]

RECURSIVE Optimizer_thread(_, _)
\* for rule in cls.rules: nodes = rule(nodes); an exception ends the chain.
Optimizer_thread(rules, res) ==
    IF rules = <<>> \/ res.err # "none" THEN res
    ELSE Optimizer_thread(
            Tail(rules),
            Threaded(ApplyRule(Head(rules), res.nodes), Append(res.applied, Head(rules))))

\* Optimizer.optimize(nodes)
Optimizer_optimize(nodes) ==
    Optimizer_thread(Optimizer_rules, Threaded(Yielded(nodes), <<>>))

\* ------------------------------------------------------------------------
\* The scoreboard the emitted operations run on
\* ------------------------------------------------------------------------

\* A score is addressed by (holder, objective).
Key(src) == <<src.scoreholder, src.objective>>

\* The value a score reads as.  Constant holders "$v" are materialised
\* with v by the init function; any other score never written reads as 0.
Read(st, src) ==
    IF Key(src) \in DOMAIN st THEN st[Key(src)]
    ELSE IF src.cls = "ConstantScoreSource" /\ IsIntText(Tail(src.scoreholder))
         THEN ParseInt(Tail(src.scoreholder))
    ELSE 0

\* The value of an operation's latter operand: an integer or a score.
Value(st, src) == IF src.cls \in {"int", "Literal"} THEN src.value ELSE Read(st, src)

Write(st, src, v) ==
    [k \in DOMAIN st \cup {Key(src)} |-> IF k = Key(src) THEN v ELSE st[k]]

\* Floor division and modulus, as the scoreboard's /= and %= compute them.
FloorDiv(x, y) == IF y > 0 THEN x \div y ELSE (0 - x) \div (0 - y)

FloorMod(x, y) == x - y * FloorDiv(x, y)

\* x <op>= y; dividing by zero fails and leaves x as it was.
Arith(cls, x, y) ==
    CASE cls = "Set" -> y
      [] cls = "Add" -> x + y
      [] cls = "Subtract" -> x - y
      [] cls = "Multiply" -> x * y
      [] cls = "Divide" -> IF y = 0 THEN x ELSE FloorDiv(x, y)
      [] cls = "Modulus" -> IF y = 0 THEN x ELSE FloorMod(x, y)

\* One operation on the scoreboard.
ExecOp(st, node) ==
    Write(st, node.former, Arith(node.cls, Read(st, node.former), Value(st, node.latter)))

RECURSIVE Exec(_, _)
\* The operations of a list, in order.
Exec(st, nodes) ==
    IF nodes = <<>> THEN st ELSE Exec(ExecOp(st, Head(nodes)), Tail(nodes))

RECURSIVE Eval(_, _)
\* The value of a user expression on a scoreboard state.
Eval(st, u) ==
    IF u.cls = "U" THEN Arith(u.op, Eval(st, u.l), Eval(st, u.r))
    ELSE Value(st, u)

\* ------------------------------------------------------------------------
\* Newer revision: src/bolt_expressions/node.py, operations.py
\* ------------------------------------------------------------------------

\* ExpressionOptions defaults.
temp_objective == "bolt.expr.temp"

const_objective == "bolt.expr.const"

\* TempScoreManager.__call__: the holder f"$s{counter}" with the manager's
\* objective; the counter then grows by one.
TempScoreManager_call(counter) ==
    [name |-> <<"$", "s">> \o FormatNat(counter),
     objective |-> temp_objective,
     counter |-> counter + 1]

\* A reset that leaves the counter one too high.
TempScoreManager_reset_off_by_one == 0 + 1

\* TempScoreManager.reset
TempScoreManager_reset == 0

\* ConstScoreManager.format
ConstScoreManager_format(value) == <<"$">> \o FormatInt(value)

\* What the buggy variant of ConstScoreManager.create below returns: the
\* value is not recorded.
ConstScoreManager_create_forgetful(constants, value) ==
    [constants |-> constants,
     name |-> ConstScoreManager_format(value),
     objective |-> const_objective]

\* ConstScoreManager.create: the set with value added, and the
\* (holder, objective) pair returned.
ConstScoreManager_create(constants, value) ==
    [constants |-> constants \cup {value},
     name |-> ConstScoreManager_format(value),
     objective |-> const_objective]

\* The temp score source the unroller takes from the temp allocator, and
\* the counter afterwards.
Bolt_TempScoreSource_create(counter) ==
    LET t == TempScoreManager_call(counter)
    IN  [src |-> [cls |-> "TempScoreSource", scoreholder |-> t.name,
                  objective |-> t.objective],
         counter |-> t.counter]

\* Literal.create(value)
Literal_create(value) == [cls |-> "Literal", value |-> value]

\* Operation.create: operands that are no expression nodes become Literals.
Bolt_Operation_create(cls, former, latter) ==
    Op(cls,
       IF IsExpressionNode(former) THEN former ELSE Literal_create(former.value),
       IF IsExpressionNode(latter) THEN latter ELSE Literal_create(latter.value))

\* Add.create / Multiply.create
Bolt_Commutative_create(cls, former, latter) ==
    IF ~IsOperation(former) /\ IsOperation(latter)
    THEN Bolt_Operation_create(cls, latter, former)
    ELSE Bolt_Operation_create(cls, former, latter)

\* create as it would read had every class the override of Add.
Bolt_create_swapping_all(cls, former, latter) ==
    IF cls # "Set"
    THEN Bolt_Commutative_create(cls, former, latter)
    ELSE Bolt_Operation_create(cls, former, latter)

Bolt_create(cls, former, latter) ==
    IF cls \in {"Add", "Multiply"}
    THEN Bolt_Commutative_create(cls, former, latter)
    ELSE Bolt_Operation_create(cls, former, latter)

RECURSIVE Bolt_Build(_)
\* The tree the host operators build for a user expression.
Bolt_Build(u) ==
    IF u.cls = "U" THEN Bolt_create(u.op, Bolt_Build(u.l), Bolt_Build(u.r))
    ELSE u

\* What the buggy variant of Operation.unroll below yields: any score that
\* former evaluates to is taken as the accumulator, not only a temp.
Bolt_Operation_yield_any_score(cls, f, l) ==
    IF f.var.cls \in {"TempScoreSource", "ScoreSource"}
    THEN Unrolled(f.ops \o l.ops \o << Op(cls, f.var, l.var) >>, f.var, l.n)
    ELSE LET t == Bolt_TempScoreSource_create(l.n)
         IN  Unrolled(
                f.ops \o l.ops \o
                    << Bolt_create("Set", t.src, f.var), Op(cls, t.src, l.var) >>,
                t.src, t.counter)

\* The tail of Operation.unroll once both operands are unrolled (f, l):
\* the operation itself on former's temp, or on a fresh temp set to former.
Bolt_Operation_yield(cls, f, l) ==
    IF f.var.cls = "TempScoreSource"
    THEN Unrolled(f.ops \o l.ops \o << Op(cls, f.var, l.var) >>, f.var, l.n)
    ELSE LET t == Bolt_TempScoreSource_create(l.n)
             temp_var == t.src
         IN  Unrolled(
                f.ops \o l.ops \o
                    << Bolt_create("Set", temp_var, f.var),
                       Op(cls, temp_var, l.var) >>,
                temp_var, t.counter)

RECURSIVE Bolt_Operation_unroll(_, _)
\* Operation.unroll: former's operations, then latter's, then the node's.
Bolt_Operation_unroll(node, n) ==
    IF ~IsOperation(node) THEN Unrolled(<<>>, node, n)
    ELSE LET f == Bolt_Operation_unroll(node.former, n)
             l == Bolt_Operation_unroll(node.latter, f.n)
         IN  Bolt_Operation_yield(node.cls, f, l)

\* Set.unroll with the counter at n: latter's operations and the final Set.
Bolt_Set_unroll_at(node, n) ==
    LET l == Bolt_Operation_unroll(node.latter, n)
    IN  Unrolled(l.ops \o << Bolt_create("Set", node.former, l.var) >>,
                 node.former, l.n)

\* Set.unroll: the counter starts over, then latter's operations and the
\* final Set.
Bolt_Set_unroll(node) == Bolt_Set_unroll_at(node, TempScoreManager_reset)

\* ------------------------------------------------------------------------
\* State
\* ------------------------------------------------------------------------

VARIABLES
    phase,      \* where the run stands
    \* compiling one assignment
    expr,       \* the user expression being compiled
    dst,        \* the score it is assigned to
    rev,        \* which revision's lowering ran: "none", "pointers", "bolt"
    start,      \* the temp counter before the expression was lowered
    count,      \* the temp counter
    unrolled,   \* the operations unroll emitted
    optimized,  \* what Optimizer.optimize handed back
    \* the optimizer on an arbitrary list
    input,      \* the list of operations handed to a rule or to optimize
    rule,       \* the rule that ran alone, or "optimize"
    first,      \* what the first run handed back
    second,     \* what optimize handed back for first's nodes
    \* one compilation session (Expression and its managers)
    disable_commands,  \* ExpressionOptions.disable_commands
    counter,    \* TempScoreManager.counter
    constants,  \* ConstScoreManager.constants
    commands,   \* the runtime's command list
    init_commands,     \* Expression.init_commands
    called_init,       \* Expression.called_init
    generated,  \* what generate_init handed to the host
    resolves,   \* how many resolve calls were made
    result,     \* the source the last resolve call returned
    allocs,     \* the temp holders the last Expression.resolve allocated
    handed,     \* the integers a const score was handed out for
    created,    \* what the last ConstScoreManager.create returned
    incr,       \* identifier_generator: the last index yielded for the path
    emitted,    \* per resolve call: its arguments, the const set before it,
                \* the commands it injected, the source it returned and
                \* the temp holders it allocated
    \* the constant checker on one command
    arguments,  \* the command's arguments
    callbacks,  \* the integers the checker called back with
    \* host operations on sources and nodes
    subject,    \* the data source the host code holds
    call,       \* the last host operation and its arguments
    outcome,    \* what it returned, or the exception it raised
    \* one identifier generator
    gen_ctx,    \* whether identifier_generator was given a context
    current_path,      \* runtime.modules.current_path
    gen_incr,   \* the generator's dict incr: module path -> last counter
    gen_counter,       \* the generator's local counter (no context)
    identifiers \* the identifiers yielded, each with the path current then

compileVars == <<expr, dst, rev, start, count, unrolled, optimized>>

rulesVars == <<input, rule, first, second>>

sessionVars ==
    <<disable_commands, counter, constants, commands, init_commands,
      called_init, generated, resolves, result, allocs, handed, created,
      incr, emitted>>

astVars == <<arguments, callbacks>>

sourceVars == <<subject, call, outcome>>

identVars == <<gen_ctx, current_path, gen_incr, gen_counter, identifiers>>

vars == <<phase, compileVars, rulesVars, sessionVars, astVars, sourceVars, identVars>>

NoResult == Threaded(Yielded(<<>>), <<>>)

CompileIdle ==
    /\ expr = IntOperand(0)
    /\ dst = ScoreA
    /\ rev = "none"
    /\ start = 0
    /\ count = 0
    /\ unrolled = <<>>
    /\ optimized = NoResult

RulesIdle ==
    /\ input = <<>>
    /\ rule = "none"
    /\ first = NoResult
    /\ second = NoResult

\* generate_init has not handed anything to the host.
NoGenerated == [called |-> FALSE, commands |-> <<>>, prepend_tags |-> <<>>]

\* ConstScoreManager.create has not been called.
NoCreated == [called |-> FALSE, value |-> 0, name |-> <<>>, objective |-> ""]

\* Expression.__post_init__: fresh managers, nothing injected or generated.
SessionStart ==
    /\ counter = 0
    /\ constants = {}
    /\ commands = <<>>
    /\ init_commands = <<>>
    /\ called_init = FALSE
    /\ generated = NoGenerated
    /\ resolves = 0
    /\ result = ScoreB
    /\ allocs = <<>>
    /\ handed = {}
    /\ created = NoCreated
    /\ incr = -1
    /\ emitted = <<>>

SessionIdle ==
    /\ disable_commands = FALSE
    /\ SessionStart

AstIdle ==
    /\ arguments = <<>>
    /\ callbacks = <<>>

\* No host operation has run.
NoCall == [op |-> "none"]

NoOutcome == [kind |-> "none"]

SourceIdle ==
    /\ subject = [cls |-> "none"]
    /\ call = NoCall
    /\ outcome = NoOutcome

\* No identifier generator was made.
IdentIdle ==
    /\ gen_ctx = FALSE
    /\ current_path = ""
    /\ gen_incr = EmptyMap
    /\ gen_counter = 0
    /\ identifiers = <<>>

\* ------------------------------------------------------------------------
\* Compiling one assignment Set(dst, expr)
\* ------------------------------------------------------------------------

CompileInit ==
    /\ phase = "built"
    /\ expr \in AllUserExprs
    /\ dst \in DstScores
    /\ rev = "none"
    /\ start = 0
    /\ count = 0
    /\ unrolled = <<>>
    /\ optimized = NoResult
    /\ RulesIdle
    /\ SessionIdle
    /\ AstIdle
    /\ SourceIdle
    /\ IdentIdle

\* Older revision: list(Set.create(dst, expr).unroll()), with the
\* process-wide temp counter wherever earlier lowerings left it.
Ptr_Unroll ==
    /\ phase = "built"
    /\ \E n \in StartCounts :
          LET u == Ptr_unroll(Ptr_create("Set", dst, Ptr_Build(expr)), n)
          IN  /\ start' = n
              /\ unrolled' = u.ops
              /\ count' = u.n
    /\ rev' = "pointers"
    /\ phase' = "unrolled"
    /\ UNCHANGED <<expr, dst, optimized, rulesVars, sessionVars, astVars, sourceVars, identVars>>

\* Newer revision: list(Set.create(dst, expr).unroll())
Bolt_Unroll ==
    /\ phase = "built"
    /\ LET u == Bolt_Set_unroll(Bolt_create("Set", dst, Bolt_Build(expr)))
       IN  /\ unrolled' = u.ops
           /\ count' = u.n
    /\ rev' = "bolt"
    /\ phase' = "unrolled"
    /\ UNCHANGED <<expr, dst, start, optimized, rulesVars, sessionVars, astVars, sourceVars, identVars>>

\* list(Optimizer.optimize(nodes)) on the unrolled operations
Optimize ==
    /\ phase = "unrolled"
    /\ optimized' = Optimizer_optimize(unrolled)
    /\ phase' = "optimized"
    /\ UNCHANGED <<expr, dst, rev, start, count, unrolled, rulesVars, sessionVars, astVars, sourceVars, identVars>>

CompileNext == Ptr_Unroll \/ Bolt_Unroll \/ Optimize

CompileSpec == CompileInit /\ [][CompileNext]_vars

\* ------------------------------------------------------------------------
\* The optimizer on arbitrary operation lists
\* ------------------------------------------------------------------------

\* Longest operation list handed to the optimizer.
MaxLen == 3

Temp0 == Ptr_TempScoreSource_create(0)

Temp1 == Ptr_TempScoreSource_create(1)

\* The operations a list is drawn from: every copy between two temps, a
\* user score and a constant, a temp scaled by the constant, and the user
\* score multiplied by a temp.
RuleOps ==
    { Op("Set", former, latter) :
        former \in {Temp0, Temp1, ScoreB},
        latter \in {Temp0, Temp1, ConstantScoreSource_create(-2)} }
    \cup { Op("Multiply", former, ConstantScoreSource_create(-2)) :
             former \in {Temp0, Temp1} }
    \cup { Op("Multiply", ScoreB, latter) : latter \in {Temp0, Temp1} }

RECURSIVE ListsOf(_, _)
\* The sequences over S of length n.
ListsOf(S, n) ==
    IF n = 0 THEN {<<>>}
    ELSE { Append(l, x) : l \in ListsOf(S, n - 1), x \in S }

RulesInit ==
    /\ phase = "list"
    /\ input \in UNION { ListsOf(RuleOps, n) : n \in 0..MaxLen }
    /\ rule = "none"
    /\ first = NoResult
    /\ second = NoResult
    /\ CompileIdle
    /\ SessionIdle
    /\ AstIdle
    /\ SourceIdle
    /\ IdentIdle

\* list(r(L)) for one registered rule r
RunRule ==
    /\ phase = "list"
    /\ \E r \in {"temp_var_collapsing", "constant_to_literal_replacement"} :
          /\ rule' = r
          /\ first' = Threaded(ApplyRule(r, input), <<r>>)
    /\ phase' = "ruled"
    /\ UNCHANGED <<input, second, compileVars, sessionVars, astVars, sourceVars, identVars>>

\* list(Optimizer.optimize(L))
RunOptimize ==
    /\ phase = "list"
    /\ rule' = "optimize"
    /\ first' = Optimizer_optimize(input)
    /\ phase' = "once"
    /\ UNCHANGED <<input, second, compileVars, sessionVars, astVars, sourceVars, identVars>>

\* list(Optimizer.optimize(...)) on the list the first call returned
RunOptimizeAgain ==
    /\ phase = "once"
    /\ first.err = "none"
    /\ second' = Optimizer_optimize(first.nodes)
    /\ phase' = "twice"
    /\ UNCHANGED <<input, rule, first, compileVars, sessionVars, astVars, sourceVars, identVars>>

RulesNext == RunRule \/ RunOptimize \/ RunOptimizeAgain

RulesSpec == RulesInit /\ [][RulesNext]_vars

\* ------------------------------------------------------------------------
\* One compilation session: src/bolt_expressions/node.py, sources.py
\* ------------------------------------------------------------------------

\* Most resolve calls in one session.
MaxResolves == 2

\* Most calls of Expression.init in one session.
MaxInits == 1

\* ExpressionOptions.init_path
init_path == "init_expressions"

\* What a session resolves: a bare integer, and expressions that take one
\* and two temps and multiply by a literal.
SessionExprs ==
    { IntOperand(-2),
      UNode("Multiply", ScoreA, IntOperand(-2)),
      UNode("Subtract", ScoreA, UNode("Multiply", ScoreA, IntOperand(7))) }

\* The integers user code asks a const score for directly.
ConstValues == {-2}

\* create_result for ResultType.score: a score on the next temp holder,
\* and the counter afterwards.
create_result(n) ==
    LET t == TempScoreManager_call(n)
    IN  [src |-> ScoreSource(t.name, t.objective), counter |-> t.counter]

\* ExpressionOptions.temp_storage
temp_storage == "bolt.expr:temp"

\* DataSource(_type, _target, _path, writetype); the path is the sequence
\* of its accessors, and readtype is writetype.
DataSource(type, target, path, writetype) ==
    [cls |-> "DataSource", type |-> type, target |-> target, path |-> path,
     writetype |-> writetype]

\* identifier_generator(ctx): the next name for the current module path,
\* "{hash}_<n>" with n counting up from 0 and never starting over, and
\* the index afterwards.
identifier_generator(last) ==
    LET n == last + 1
    IN  [name |-> <<"{hash}", "_">> \o FormatNat(n), incr |-> n]

\* Expression.temp_data: ("storage", temp_storage, Path(next identifier)).
Expression_temp_data(last) ==
    LET id == identifier_generator(last)
    IN  [type |-> "storage", target |-> temp_storage, path |-> <<id.name>>,
         incr |-> id.incr]

\* create_result for ResultType.data: a data source on the next temp path.
create_data_result(last) ==
    LET d == Expression_temp_data(last)
    IN  [src |-> DataSource(d.type, d.target, d.path, "Any"), incr |-> d.incr]

\* The result type sources.resolve asks for: that of the operation, a
\* score for arithmetic, and data for a value that is no operation.
ResultTypeOf(value) == IF value.cls = "U" THEN "score" ELSE "data"

\* The temp holders an unrolled list allocated, in allocation order: every
\* temp Operation.unroll creates is first set to former's value.
AllocatedBy(ops) ==
    LET sets == SelectSeq(ops,
                    LAMBDA op : op.cls = "Set" /\ op.former.cls = "TempScoreSource")
    IN  [i \in 1..Len(sets) |-> sets[i].former.scoreholder]

RECURSIVE literal_to_constant_replacement(_, _)
\* Optimizer rule literal_to_constant_replacement: an integer literal that
\* is the latter of an operation other than Set, Add and Subtract becomes
\* a const score taken from the const allocator.
literal_to_constant_replacement(consts, nodes) ==
    IF nodes = <<>> THEN [constants |-> consts, nodes |-> <<>>, values |-> {}]
    ELSE LET node == Head(nodes)
             swap == /\ node.latter.cls = "Literal"
                     /\ node.cls \notin {"Set", "Add", "Subtract"}
             c == ConstScoreManager_create(consts, node.latter.value)
             rest == literal_to_constant_replacement(
                         IF swap THEN c.constants ELSE consts, Tail(nodes))
         IN  [constants |-> rest.constants,
              nodes |->
                  << IF swap
                     THEN [node EXCEPT !.latter = ScoreSource(c.name, c.objective)]
                     ELSE node >> \o rest.nodes,
              values |-> rest.values \cup (IF swap THEN {node.latter.value} ELSE {})]

\* `scoreboard players set <holder> <objective> <value>`
SetCommand(holder, objective, value) ==
    [cmd |-> "scoreboard players set", target |-> <<holder, objective>>,
     value |-> value]

\* The operator token of `scoreboard players operation`.
OperationToken(cls) ==
    CASE cls = "Set" -> "="
      [] cls = "Add" -> "+="
      [] cls = "Subtract" -> "-="
      [] cls = "Multiply" -> "*="
      [] cls = "Divide" -> "/="
      [] cls = "Modulus" -> "%="

\* `scoreboard players add|remove <target> <k>`: add for a literal that
\* raises the score, remove for one that lowers it, by its absolute value.
AddCommand(target, k) ==
    [cmd |-> IF k >= 0 THEN "scoreboard players add" ELSE "scoreboard players remove",
     target |-> target,
     value |-> FormatNat(IF k >= 0 THEN k ELSE 0 - k)]

\* The serializer's command for one operation.
SerializeOp(op) ==
    IF op.former.cls = "DataSource"
    THEN IF op.latter.cls = "Literal"
         THEN [cmd |-> "data modify set value",
               target |-> <<op.former.type, op.former.target, op.former.path>>,
               value |-> FormatInt(op.latter.value)]
         ELSE [cmd |-> "execute store result",
               target |-> <<op.former.type, op.former.target, op.former.path>>,
               source |-> Key(op.latter)]
    ELSE IF op.latter.cls = "Literal"
    THEN CASE op.cls = "Set" ->
                SetCommand(op.former.scoreholder, op.former.objective,
                           FormatInt(op.latter.value))
           [] op.cls = "Add" -> AddCommand(Key(op.former), op.latter.value)
           [] op.cls = "Subtract" -> AddCommand(Key(op.former), 0 - op.latter.value)
    ELSE [cmd |-> "scoreboard players operation", target |-> Key(op.former),
          operator |-> OperationToken(op.cls), source |-> Key(op.latter)]

\* IrSerializer.__call__: one command per operation, in order.
IrSerializer(nodes) == [i \in 1..Len(nodes) |-> SerializeOp(nodes[i])]

\* What the buggy variant of inject_command below leaves: the new commands
\* are put in front of the list.
inject_command_in_front(cmds, new) == new \o cmds

\* Expression.inject_command: every command is appended to the runtime's
\* command list.
inject_command(cmds, new) == cmds \o new

\* `function <init_path>`
FunctionCommand(path) == [cmd |-> "function", path |-> path]

RECURSIVE Ascending(_)
\* The integers of a finite set in ascending order.
Ascending(S) ==
    IF S = {} THEN <<>>
    ELSE LET least == CHOOSE x \in S : \A y \in S : x <= y
         IN  <<least>> \o Ascending(S \ {least})

\* The const set flushed to the init command list at session end: one
\* `scoreboard players set $v <const-objective> v` per interned integer.
FlushConstants(consts) ==
    LET order == Ascending(consts)
    IN  [i \in 1..Len(order) |->
            SetCommand(ConstScoreManager_format(order[i]), const_objective,
                       FormatInt(order[i]))]

\* What the buggy variant of generate_init below hands to the host: the
\* first init command is lost.
Expression_generate_init_dropping(cmds, called) ==
    IF cmds = <<>> THEN NoGenerated
    ELSE [called |-> TRUE, commands |-> Tail(cmds),
          prepend_tags |-> IF ~called THEN <<"minecraft:load">> ELSE <<>>]

\* Expression.generate_init: nothing without init commands; otherwise the
\* init function, tagged minecraft:load unless init() was called.
Expression_generate_init(cmds, called) ==
    IF cmds = <<>> THEN NoGenerated
    ELSE [called |-> TRUE, commands |-> cmds,
          prepend_tags |-> IF ~called THEN <<"minecraft:load">> ELSE <<>>]

SessionInit ==
    /\ phase = "session"
    /\ disable_commands \in BOOLEAN
    /\ SessionStart
    /\ CompileIdle
    /\ RulesIdle
    /\ AstIdle
    /\ SourceIdle
    /\ IdentIdle

\* sources.resolve(expr, value, result): the result is the given source,
\* or for an operation without one a score taken from the temp allocator;
\* then Expression.resolve(Set(result, value)): the temp counter is reset,
\* the node unrolled, optimized and serialized, the commands injected.
Resolve ==
    /\ phase = "session"
    /\ resolves < MaxResolves
    /\ \E value \in SessionExprs, given \in BOOLEAN :
          /\ LET data == ~given /\ ResultTypeOf(value) = "data"
                 made == IF data THEN create_data_result(incr)
                         ELSE create_result(counter)
                 res == IF given THEN ScoreB ELSE made.src
                 node == Bolt_create("Set", res, Bolt_Build(value))
                 u == Bolt_Set_unroll_at(node, TempScoreManager_reset)
                 o == literal_to_constant_replacement(constants, u.ops)
                 cmds == IrSerializer(o.nodes)
             IN  /\ result' = res
                 /\ counter' = u.n
                 /\ allocs' = AllocatedBy(u.ops)
                 /\ constants' = o.constants
                 /\ handed' = handed \cup o.values
                 /\ commands' = inject_command(commands, cmds)
                 /\ incr' = IF data THEN made.incr ELSE incr
                 /\ emitted' = Append(emitted,
                        [value |-> value, given |-> given,
                         constants |-> constants, nodes |-> o.nodes,
                         commands |-> cmds, result |-> res,
                         allocs |-> AllocatedBy(u.ops)])
    /\ resolves' = resolves + 1
    /\ UNCHANGED <<phase, disable_commands, init_commands, called_init,
                   generated, created, compileVars, rulesVars, astVars, sourceVars, identVars>>

\* ConstScoreManager.create(v), called by user code
ConstCreate ==
    /\ phase = "session"
    /\ \E v \in ConstValues :
          LET c == ConstScoreManager_create(constants, v)
          IN  /\ constants' = c.constants
              /\ created' = [called |-> TRUE, value |-> v, name |-> c.name,
                             objective |-> c.objective]
              /\ handed' = handed \cup {v}
    /\ UNCHANGED <<phase, disable_commands, counter, commands, init_commands,
                   called_init, generated, resolves, result, allocs,
                   incr, emitted, compileVars, rulesVars, astVars, sourceVars, identVars>>

\* How many `function` commands the command list holds.
InitCalls ==
    Cardinality({ i \in 1..Len(commands) : commands[i].cmd = "function" })

\* Expression.init()
CallInit ==
    /\ phase = "session"
    /\ InitCalls < MaxInits
    /\ commands' = inject_command(commands, << FunctionCommand(init_path) >>)
    /\ called_init' = TRUE
    /\ UNCHANGED <<phase, disable_commands, counter, constants, init_commands,
                   generated, resolves, result, allocs, handed, created,
                   incr, emitted, compileVars, rulesVars, astVars, sourceVars, identVars>>

\* Session end: the const set is flushed to init_commands and
\* Expression.generate_init() hands the init function to the host.
GenerateInit ==
    /\ phase \in {"session", "checked"}
    /\ init_commands' = init_commands \o FlushConstants(constants)
    /\ generated' = Expression_generate_init(init_commands', called_init)
    /\ phase' = "ended"
    /\ UNCHANGED <<disable_commands, counter, constants, commands, called_init,
                   resolves, result, allocs, handed, created,
                   incr, emitted, compileVars, rulesVars, astVars, sourceVars, identVars>>

SessionNext == Resolve \/ ConstCreate \/ CallInit \/ GenerateInit

SessionSpec == SessionInit /\ [][SessionNext]_vars

\* ------------------------------------------------------------------------
\* The constant checker on one command: src/bolt_expressions/ast.py
\* ------------------------------------------------------------------------

\* Most arguments of a command.
MaxArgs == 5

\* Longest hand-written player name.
MaxNameLen == 4

\* AstPlayerName(value=...)
AstPlayerName(value) == [node |-> "AstPlayerName", value |-> value]

\* AstObjective(value=...)
AstObjective(value) == [node |-> "AstObjective", objective |-> value]

\* Any other argument node, such as the operation token.
AstLiteral == [node |-> "AstLiteral"]

\* ConstantScoreChecker.objective_node
objective_node == AstObjective(const_objective)

\* The characters hand-written names are made of.
NameChars == {"$", "+", "-", "0", "5", "7", "x", "."}

\* The characters of NameChars that \b counts as word characters.
WordChars == {"0", "5", "7", "x"}

\* No match of the pattern.
NoMatch == <<>>

\* ConstantScoreChecker.pattern.match(s): group 1 of ^\$([-+]?\d+)\b, or
\* NoMatch.  \d+ takes the longest run of digits; \b holds at the end of
\* the text or before a non-word character, and giving digits back never
\* makes it hold.
pattern_match(s) ==
    IF Len(s) < 2 \/ s[1] # "$" THEN NoMatch
    ELSE LET from == IF s[2] \in {"-", "+"} THEN 3 ELSE 2
             stop == CHOOSE e \in (from - 1)..Len(s) :
                        /\ \A i \in from..e : s[i] \in DigitChars
                        /\ e = Len(s) \/ s[e + 1] \notin DigitChars
         IN  IF stop < from THEN NoMatch
             ELSE IF stop < Len(s) /\ s[stop + 1] \in WordChars THEN NoMatch
             ELSE SubSeq(s, 2, stop)

\* list.index(x): the first position of x, counted from 1.
IndexOf(seq, x) ==
    CHOOSE i \in 1..Len(seq) : seq[i] = x /\ \A j \in 1..(i - 1) : seq[j] # x

\* ConstantScoreChecker.command: the integers the callback is called with.
\* Only the first occurrence of the objective node is looked at; the name
\* is the argument before it, and for an objective in the first place
\* arguments[-1], the last argument.
ConstantScoreChecker_command(args) ==
    IF \A p \in 1..Len(args) : args[p] # objective_node THEN <<>>
    ELSE LET i == IndexOf(args, objective_node)
             name == args[IF i = 1 THEN Len(args) ELSE i - 1]
         IN  IF name.node # "AstPlayerName" THEN <<>>
             ELSE LET match == pattern_match(name.value)
                  IN  IF match = NoMatch THEN <<>>
                      ELSE << ParseInt(match) >>

\* The names of length n over NameChars.
NamesOf(n) == ListsOf(NameChars, n)

\* The nodes the arguments of a command are drawn from.
ArgNodes ==
    { AstPlayerName(<<"$", "5">>), AstPlayerName(<<"$", "7">>),
      AstPlayerName(<<"x">>), objective_node, AstLiteral }

\* The commands checked: every hand-written name of up to longest
\* characters paired with the const objective, and every list of up to
\* most arguments over ArgNodes.
AstCommands(longest, most) ==
    { << AstPlayerName(n), objective_node >> :
          n \in UNION { NamesOf(k) : k \in 1..longest } }
    \cup UNION { ListsOf(ArgNodes, k) : k \in 0..most }

AstInit ==
    /\ phase = "parsed"
    /\ arguments \in AstCommands(MaxNameLen, MaxArgs)
    /\ callbacks = <<>>
    /\ SessionIdle
    /\ CompileIdle
    /\ RulesIdle
    /\ SourceIdle
    /\ IdentIdle

RECURSIVE RegisterAll(_, _)
\* ConstantScoreSource.create for each value called back with: the value
\* is registered with the const allocator.
RegisterAll(consts, values) ==
    IF values = <<>> THEN consts
    ELSE RegisterAll(ConstScoreManager_create(consts, Head(values)).constants,
                     Tail(values))

\* ConstantScoreChecker.command(node)
CheckCommand ==
    /\ phase = "parsed"
    /\ LET called == ConstantScoreChecker_command(arguments)
       IN  /\ callbacks' = called
           /\ constants' = RegisterAll(constants, called)
           /\ handed' = handed \cup { called[i] : i \in 1..Len(called) }
    /\ phase' = "checked"
    /\ UNCHANGED <<arguments, disable_commands, counter, commands,
                   init_commands, called_init, generated, resolves, result,
                   allocs, created, incr, emitted, compileVars, rulesVars,
                   sourceVars, identVars>>

AstNext == CheckCommand \/ GenerateInit

AstSpec == AstInit /\ [][AstNext]_vars

\* ------------------------------------------------------------------------
\* Host operations on sources: src/bolt_expressions/sources.py
\* ------------------------------------------------------------------------

\* Longest sub-path handed to DataSource._access.
MaxPath == 2

\* The NBT types a data source is tagged with, one per operator handler
\* and two for the sequence handler.
NbtTypes == {"Any", "Int", "String", "IntArray", "List", "Compound"}

is_numeric_type(t) == t = "Int"

is_string_type(t) == t = "String"

is_array_type(t) == t = "IntArray"

is_list_type(t) == t = "List"

is_compound_type(t) == t = "Compound"

\* DataSource.readtype
readtype(self) == self.writetype

\* DataSource.operator_handler: the handler class for the readtype.
operator_handler(self) ==
    IF is_numeric_type(readtype(self)) THEN "NumericOperatorHandler"
    ELSE IF is_string_type(readtype(self)) THEN "StringOperatorHandler"
    ELSE IF is_array_type(readtype(self)) THEN "SequenceOperatorHandler"
    ELSE IF is_list_type(readtype(self)) THEN "SequenceOperatorHandler"
    ELSE IF is_compound_type(readtype(self)) THEN "CompoundOperatorHandler"
    ELSE "GenericOperatorHandler"

\* The class attributes of the handlers; OperatorHandler's default is False.
list_index(handler) ==
    handler \in {"GenericOperatorHandler", "SequenceOperatorHandler"}

\* named_key as it would read had the sequence handler set it as well.
named_key_on_sequences(handler) ==
    handler \in {"GenericOperatorHandler", "CompoundOperatorHandler",
                 "SequenceOperatorHandler"}

named_key(handler) ==
    handler \in {"GenericOperatorHandler", "CompoundOperatorHandler"}

compound_match(handler) ==
    handler \in {"GenericOperatorHandler", "CompoundOperatorHandler"}

\* The accessor classes of a path.
AccessorKinds == {"ListIndex", "NamedKey", "CompoundMatch"}

\* What access_type finds for the child an accessor leads to: a type, or
\* None.
AccessTypes == NbtTypes \cup {"None"}

\* An accessor of a path: its class and its key or index.
Accessor(kind, key) == [kind |-> kind, key |-> key]

\* One step of a sub-path: the accessor and what access_type returns for
\* it on the source it is applied to.
Step(kind, key, found) == [kind |-> kind, key |-> key, found |-> found]

Steps == { Step(kind, 0, found) : kind \in AccessorKinds, found \in AccessTypes }

\* The sub-paths of up to n steps.
PathsUpTo(n) == UNION { [1..k -> Steps] : k \in 0..n }

\* A host call that returned value, and one that raised.
Returns(value) == [kind |-> "returned", value |-> value]

Raises(error, message) == [kind |-> "raised", error |-> error, message |-> message]

RECURSIVE DataSource_access(_, _)
\* DataSource._access(sub_path)
DataSource_access(self, sub_path) ==
    IF Len(sub_path) = 0 THEN Returns(self)
    ELSE LET handler == operator_handler(self)
             accessor == Head(sub_path)
             rest == Tail(sub_path)
         IN  IF accessor.kind = "ListIndex" /\ ~list_index(handler)
             THEN Raises("TypeError", "is not indexable")
             ELSE IF accessor.kind = "CompoundMatch" /\ ~compound_match(handler)
             THEN Raises("TypeError", "does not support compound matching")
             ELSE IF accessor.kind = "NamedKey" /\ ~named_key(handler)
             THEN Raises("TypeError", "does not have named keys")
             ELSE LET writetype == IF accessor.found = "None" THEN "Any"
                                   ELSE accessor.found
                      source == [self EXCEPT
                                    !.path = Append(self.path,
                                                Accessor(accessor.kind, accessor.key)),
                                    !.writetype = writetype]
                  IN  IF Len(rest) = 0 THEN Returns(source)
                      ELSE DataSource_access(source, rest)

\* The arithmetic operators of the host language and their classes.
ArithOperators == {"__add__", "__sub__", "__mul__", "__truediv__", "__mod__"}

OperationOf(operator) ==
    CASE operator = "__add__" -> "Add"
      [] operator = "__sub__" -> "Subtract"
      [] operator = "__mul__" -> "Multiply"
      [] operator = "__truediv__" -> "Divide"
      [] operator = "__mod__" -> "Modulus"

\* The handler classes that define the arithmetic operators and their
\* reflected forms.
HandlerDefinesArithmetic(handler) ==
    handler \in {"GenericOperatorHandler", "NumericOperatorHandler"}

\* What an operator method hands back: NotImplemented, or the operation it
\* built and passed on to resolve.
NotImplemented == [kind |-> "NotImplemented"]

Resolves(node) == [kind |-> "resolved", value |-> node]

\* convert_node(value): a value that is no node becomes a Literal.
convert_node(value) ==
    IF IsExpressionNode(value) THEN value
    ELSE Literal_create(value.value)

\* binary_operator(cls): the method builds cls(former, latter) from the
\* bound operand and the converted other one; reflected, the bound operand
\* is latter.
binary_operator(cls, bound, value, reflected) ==
    IF reflected THEN Resolves(Op(cls, convert_node(value), bound))
    ELSE Resolves(Op(cls, bound, convert_node(value)))

\* DataSourceOperator.__get__ and the call of what it returns: the
\* handler's method when the handler has the operator, _not_implemented
\* otherwise.
DataSourceOperator_call(obj, operator, value, reflected) ==
    IF HandlerDefinesArithmetic(operator_handler(obj))
    THEN binary_operator(OperationOf(operator), obj, value, reflected)
    ELSE NotImplemented

\* type(obj).__op__(obj, value), or the reflected method: a score source
\* always builds, a data source asks its handler, an int knows no sources.
OperatorMethod_call(obj, operator, value, reflected) ==
    CASE obj.cls = "ScoreSource" ->
            binary_operator(OperationOf(operator), obj, value, reflected)
      [] obj.cls = "DataSource" ->
            DataSourceOperator_call(obj, operator, value, reflected)
      [] OTHER -> NotImplemented

\* The host's evaluation of `left <operator> right`: left's method, then
\* right's reflected method when left's is not implemented and right is of
\* another class, then TypeError.
HostBinary(operator, left, right) ==
    LET direct == OperatorMethod_call(left, operator, right, FALSE)
        other == IF left.cls # right.cls
                 THEN OperatorMethod_call(right, operator, left, TRUE)
                 ELSE NotImplemented
    IN  IF direct # NotImplemented THEN direct
        ELSE IF other # NotImplemented THEN other
        ELSE Raises("TypeError", "unsupported operand type(s)")

\* An Insert, Append or Prepend node: Operation's fields and the index.
InsertNode(cls, former, latter, index) ==
    [cls |-> cls, former |-> former, latter |-> latter, index |-> index]

\* Insert.create / Append.create / Prepend.create: Operation.create with
\* the index given, -1 for Append and 0 for Prepend.
Insert_create(cls, former, latter, index) ==
    LET made == Bolt_Operation_create(cls, former, latter)
    IN  InsertNode(cls, made.former, made.latter,
                   CASE cls = "Append" -> -1
                     [] cls = "Prepend" -> 0
                     [] OTHER -> index)

\* self.former[self.index]: the element of the list source at the index,
\* found being what access_type returns for it.
DataSource_getitem(self, index, found) ==
    DataSource_access(self, << Step("ListIndex", index, found) >>)

\* Insert.unroll with the Set ahead of the placeholder.
Insert_unroll_set_first(self, found) ==
    IF self.latter.cls \in {"DataSource", "Literal"} THEN Returns(<< self >>)
    ELSE LET l == Bolt_Operation_unroll(self.latter, TempScoreManager_reset)
             element == DataSource_getitem(self.former, self.index, found)
         IN  IF element.kind = "raised" THEN element
             ELSE Returns(l.ops \o
                    << Bolt_create("Set", element.value, l.var),
                       [self EXCEPT !.latter = Literal_create(0)] >>)

\* list(Insert.unroll()): the node itself for a data source or a literal;
\* else the value's operations, the node with the placeholder literal 0,
\* and the Set of the element at the index to the value.
Insert_unroll(self, found) ==
    IF self.latter.cls \in {"DataSource", "Literal"} THEN Returns(<< self >>)
    ELSE LET l == Bolt_Operation_unroll(self.latter, TempScoreManager_reset)
             element == DataSource_getitem(self.former, self.index, found)
         IN  IF element.kind = "raised" THEN element
             ELSE Returns(l.ops \o
                    << [self EXCEPT !.latter = Literal_create(0)],
                       Bolt_create("Set", element.value, l.var) >>)

\* The list a data path holds when the emitted operations run, the value
\* another data path holds, and the scores.
DataState(list, other, scores) == [list |-> list, other |-> other, scores |-> scores]

\* data modify ... insert <index> / append / prepend: a negative index
\* counts from the end, -1 being the position after the last element; an
\* index outside the list fails and leaves the list as it was.
InsertPosition(list, index) == IF index < 0 THEN Len(list) + index + 1 ELSE index

InsertAt(list, index, v) ==
    LET pos == InsertPosition(list, index)
    IN  IF pos \in 0..Len(list)
        THEN SubSeq(list, 1, pos) \o << v >> \o SubSeq(list, pos + 1, Len(list))
        ELSE list

\* The element a ListIndex names: a negative index counts from the end.
ElementPosition(list, index) == IF index < 0 THEN Len(list) + index + 1 ELSE index + 1

\* execute store result <data>[index]: the element is set when it exists.
StoreAt(list, index, v) ==
    LET pos == ElementPosition(list, index)
    IN  IF pos \in 1..Len(list) THEN [list EXCEPT ![pos] = v] ELSE list

\* One operation on the data state.
ExecDataOp(ds, op) ==
    IF op.cls \in {"Insert", "Append", "Prepend"}
    THEN [ds EXCEPT !.list =
            InsertAt(ds.list, op.index,
                     IF op.latter.cls = "Literal" THEN op.latter.value ELSE ds.other)]
    ELSE IF op.former.cls = "DataSource"
    THEN [ds EXCEPT !.list =
            StoreAt(ds.list, op.former.path[Len(op.former.path)].key,
                    Value(ds.scores, op.latter))]
    ELSE [ds EXCEPT !.scores = ExecOp(ds.scores, op)]

RECURSIVE ExecData(_, _)
ExecData(ds, ops) ==
    IF ops = <<>> THEN ds ELSE ExecData(ExecDataOp(ds, Head(ops)), Tail(ops))

\* A host iterable (list, tuple) passed as one argument.
HostIterable(items) == [cls |-> "iterable", items |-> items]

\* The least and the greatest of a non-empty set of integers.
Least(S) == CHOOSE x \in S : \A y \in S : x <= y

Greatest(S) == CHOOSE x \in S : \A y \in S : x >= y

\* f(*args) for the host's min (cls "Min") or max (cls "Max") on integers:
\* no argument is a TypeError, one empty iterable a ValueError.
HostMinMax(cls, args) ==
    LET items == IF Len(args) = 1 /\ args[1].cls = "iterable" THEN args[1].items
                 ELSE args
        ints == { items[i].value : i \in 1..Len(items) }
    IN  IF Len(args) = 0
        THEN Raises("TypeError", "expected at least 1 argument, got 0")
        ELSE IF Len(items) = 0
        THEN Raises("ValueError", "arg is an empty sequence")
        ELSE Returns(IntOperand(IF cls = "Min" THEN Least(ints) ELSE Greatest(ints)))

RECURSIVE wrapped_min_max(_, _)
\* wrapped_min(f, *args) (cls "Min", f the host's min) and wrapped_max
\* (cls "Max", f the host's max)
wrapped_min_max(cls, args) ==
    IF Len(args) = 1 /\ args[1].cls # "iterable" THEN Returns(args[1])
    ELSE LET values == IF Len(args) = 1 THEN args[1].items ELSE args
             at == { i \in 1..Len(values) : IsExpressionNode(values[i]) }
         IN  IF at = {} THEN HostMinMax(cls, args)
             ELSE LET i == Least(at)
                      node == values[i]
                      remaining == SubSeq(values, 1, i - 1)
                                       \o SubSeq(values, i + 1, Len(values))
                      inner == wrapped_min_max(cls, remaining)
                  IN  IF inner.kind = "raised" THEN inner
                      ELSE Returns(Bolt_Operation_create(cls, inner.value, node))

\* The data sources host code starts from: a storage path of any type.
Subjects == { DataSource("storage", "demo:data", <<>>, t) : t \in NbtTypes }

SourceInit ==
    /\ phase = "host"
    /\ subject \in Subjects
    /\ call = NoCall
    /\ outcome = NoOutcome
    /\ CompileIdle
    /\ RulesIdle
    /\ SessionIdle
    /\ AstIdle
    /\ IdentIdle

\* source._access(sub_path), as source[key] and source(matching) call it
Access ==
    /\ phase = "host"
    /\ \E sub_path \in PathsUpTo(MaxPath) :
          /\ call' = [op |-> "_access", self |-> subject, sub_path |-> sub_path]
          /\ outcome' = DataSource_access(subject, sub_path)
    /\ phase' = "called"
    /\ UNCHANGED <<subject, compileVars, rulesVars, sessionVars, astVars, identVars>>

\* What the subject is combined with: an integer, a score, a data source.
OtherOperands ==
    {IntOperand(-2), ScoreA}
        \cup { DataSource("storage", "demo:other", <<>>, t) : t \in NbtTypes }

\* subject <operator> other, or other <operator> subject
Arithmetic ==
    /\ phase = "host"
    /\ \E operator \in ArithOperators, other \in OtherOperands, swapped \in BOOLEAN :
          LET left == IF swapped THEN other ELSE subject
              right == IF swapped THEN subject ELSE other
          IN  /\ call' = [op |-> "binary", operator |-> operator,
                          left |-> left, right |-> right]
              /\ outcome' = HostBinary(operator, left, right)
    /\ phase' = "called"
    /\ UNCHANGED <<subject, compileVars, rulesVars, sessionVars, astVars, identVars>>

\* The indices handed to insert.
InsertIndices == {-2, -1, 0, 1, 2}

\* The values inserted: an integer, a data source, a score, a product.
InsertValues ==
    {IntOperand(-2), DataSource("storage", "demo:other", <<>>, "Any"), ScoreA,
     UNode("Multiply", ScoreA, IntOperand(-2))}

\* list(cls.create(subject, value, index).unroll()) for Insert, Append and
\* Prepend
InsertInto ==
    /\ phase = "host"
    /\ \E cls \in {"Insert", "Append", "Prepend"}, index \in InsertIndices,
          value \in InsertValues, found \in {"None", "Int"} :
          /\ cls # "Insert" => index = 0
          /\ LET node == Insert_create(cls, subject, Bolt_Build(value), index)
             IN  /\ call' = [op |-> "insert", node |-> node, value |-> value]
                 /\ outcome' = Insert_unroll(node, found)
    /\ phase' = "called"
    /\ UNCHANGED <<subject, compileVars, rulesVars, sessionVars, astVars, identVars>>

\* Most values handed to min or max.
MaxValues == 3

\* The values handed to min or max: integers and scores.
MinMaxValues == {IntOperand(-2), IntOperand(5), ScoreA, ScoreB}

\* min(...) / max(...) on separate arguments or on one iterable
MinMax ==
    /\ phase = "host"
    /\ \E cls \in {"Min", "Max"}, n \in 1..MaxValues, packed \in BOOLEAN :
          \E values \in [1..n -> MinMaxValues] :
              /\ call' = [op |-> "minmax", cls |-> cls, values |-> values,
                          packed |-> packed]
              /\ outcome' = wrapped_min_max(cls,
                                IF packed THEN << HostIterable(values) >> ELSE values)
    /\ phase' = "called"
    /\ UNCHANGED <<subject, compileVars, rulesVars, sessionVars, astVars, identVars>>

SourceNext == Access \/ Arithmetic \/ InsertInto \/ MinMax

SourceSpec == SourceInit /\ [][SourceNext]_vars

\* ------------------------------------------------------------------------
\* The identifier generator: src/bolt_expressions/utils.py
\* ------------------------------------------------------------------------

\* Most identifiers one generator is asked for.
MaxIds == 5

\* The module paths the runtime may be in.
ModulePaths == {"demo:main", "demo:util"}

RECURSIVE Generator_format(_, _)
\* ctx.generate.format(fmt, hash) of the host library: the template with
\* "{hash}" replaced by the hash of the second argument, which is written
\* "#" and the hashed value, so that two values have the same hash only
\* when they are the same.
Generator_format(fmt, hash) ==
    IF fmt = <<>> THEN <<>>
    ELSE (IF Head(fmt) = "{hash}" THEN <<"#", hash>> ELSE << Head(fmt) >>)
             \o Generator_format(Tail(fmt), hash)

\* One next() on identifier_generator(ctx). With a context: the counter
\* of the current path, -1 when the path is new, grows by one and names
\* the identifier. Without one: the identifier is named after the local
\* counter, which no statement of the loop assigns.
identifier_generator_next(ctx, path, seen, local) ==
    IF ctx
    THEN LET n == (IF path \in DOMAIN seen THEN seen[path] ELSE -1) + 1
         IN  [name |-> Generator_format(<<"{hash}", "_">> \o FormatNat(n), path),
              incr |-> MapPut(seen, path, n),
              counter |-> local]
    ELSE [name |-> <<"i">> \o FormatNat(local),
          incr |-> seen,
          counter |-> local]

\* identifier_generator(ctx) up to the first next(): with a context an
\* empty dict, without one the counter 0.
IdentInit ==
    /\ phase = "generator"
    /\ gen_ctx \in BOOLEAN
    /\ current_path \in ModulePaths
    /\ gen_incr = EmptyMap
    /\ gen_counter = 0
    /\ identifiers = <<>>
    /\ CompileIdle
    /\ RulesIdle
    /\ SessionIdle
    /\ AstIdle
    /\ SourceIdle

\* next(identifiers), as Expression.temp_data calls it
NextIdentifier ==
    /\ phase = "generator"
    /\ Len(identifiers) < MaxIds
    /\ LET y == identifier_generator_next(gen_ctx, current_path, gen_incr,
                                          gen_counter)
       IN  /\ gen_incr' = y.incr
           /\ gen_counter' = y.counter
           /\ identifiers' = Append(identifiers,
                                 [module |-> current_path, name |-> y.name])
    /\ UNCHANGED <<phase, gen_ctx, current_path, compileVars, rulesVars,
                   sessionVars, astVars, sourceVars>>

\* The runtime goes on to another module.
EnterModule ==
    /\ phase = "generator"
    /\ \E path \in ModulePaths \ {current_path} : current_path' = path
    /\ UNCHANGED <<phase, gen_ctx, gen_incr, gen_counter, identifiers,
                   compileVars, rulesVars, sessionVars, astVars, sourceVars>>

IdentNext == NextIdentifier \/ EnterModule

IdentSpec == IdentInit /\ [][IdentNext]_vars

\* ------------------------------------------------------------------------
\* Properties
\* ------------------------------------------------------------------------

\* The scoreboard states the emitted operations are run on: the user
\* scores hold any of ScoreValues.
UserStates == [ {Key(ScoreA), Key(ScoreB)} -> ScoreValues ]

IsTempKey(k) == k[2] \in {"temp", temp_objective}

\* Running nodes on st leaves dst with the value of u on st and every
\* other score that is no temp as it was.
ComputesInto(nodes, u, d) ==
    \A st \in UserStates :
        LET fin == Exec(st, nodes)
        IN  /\ Key(d) \in DOMAIN fin
            /\ fin[Key(d)] = Eval(st, u)
            /\ \A k \in DOMAIN fin \ {Key(d)} :
                  IsTempKey(k) \/ (k \in DOMAIN st /\ fin[k] = st[k])

\* C1: for both revisions of unroll, the operations emitted for
\* Set(dst, expr) leave dst equal to the value of expr on the initial
\* scoreboard and change no other non-temp score, also when dst occurs in
\* expr.
C1_UnrollSound == phase = "unrolled" => ComputesInto(unrolled, expr, dst)

\* C1 witness: an unrolled expression of more than MaxOps operators that
\* reads its own destination, in either revision.
C1_Witness ==
    /\ phase = "unrolled"
    /\ rev = "bolt"
    /\ dst = ScoreA
    /\ expr \in UserExprs(DeepOps, MaxOps + 1)
    /\ Len(unrolled) > MaxOps + 2

\* The scoreboard states an arbitrary operation list is run on: temps may
\* hold values left by earlier operations.
ListStates == [ {Key(Temp0), Key(Temp1), Key(ScoreB)} -> {0, 3} ]

\* Two lists leave every non-temp score with the same value.
SameUserEffect(l1, l2) ==
    \A st \in ListStates :
        LET f1 == Exec(st, l1)
            f2 == Exec(st, l2)
            user == { k \in DOMAIN f1 \cup DOMAIN f2 : ~IsTempKey(k) }
        IN  \A k \in user : k \in DOMAIN f1 /\ k \in DOMAIN f2 /\ f1[k] = f2[k]

\* C2: for each registered rule r and every operation list L, running r(L)
\* has the same effect on every non-temp score as running L.
C2_RuleSound ==
    phase = "ruled" /\ first.err = "none" => SameUserEffect(input, first.nodes)

\* C3: optimizing the output of optimize returns that output again, and
\* optimize applies the registered rules once each, in registration order.
C3_OptimizeIdempotent ==
    /\ phase \in {"once", "twice"} /\ first.err = "none" =>
          first.applied =
              <<"temp_var_collapsing", "constant_to_literal_replacement", "print_empty">>
    /\ phase = "twice" =>
          /\ second.err = "none"
          /\ second.nodes = first.nodes
          /\ second.applied = first.applied

\* C3 witness: a second run over a list that the first run changed, both
\* by collapsing a temp copy and by replacing a constant.
C3_Witness ==
    /\ phase = "twice"
    /\ Len(first.nodes) < Len(input)
    /\ \E i \in 1..Len(first.nodes) : first.nodes[i].latter.cls = "int"

\* The index n of a temp holder "$i<n>" / "$s<n>".
TempIndex(src) == ParseNat(SubSeq(src.scoreholder, 3, Len(src.scoreholder)), 0)

\* The temp indices a list of operations refers to.
TempIndices(nodes) ==
    { TempIndex(nodes[i].former) :
        i \in { j \in 1..Len(nodes) : nodes[j].former.cls = "TempScoreSource" } }
    \cup
    { TempIndex(nodes[i].latter) :
        i \in { j \in 1..Len(nodes) : nodes[j].latter.cls = "TempScoreSource" } }

\* C5: the temp indices the list left by unroll and optimize refers to are
\* 0 .. k-1 for some k.
C5_TempGapless ==
    phase = "optimized" /\ optimized.err = "none" =>
        TempIndices(optimized.nodes) = 0..(Cardinality(TempIndices(optimized.nodes)) - 1)

\* C5 witness: an optimized list of the older revision that skips a temp
\* index below one it still uses.
C5_Witness ==
    /\ phase = "optimized"
    /\ rev = "pointers"
    /\ start = 0
    /\ \E i \in TempIndices(optimized.nodes) :
          \E j \in 0..(i - 1) : j \notin TempIndices(optimized.nodes)

\* The index written after the two-character prefix of a temp holder.
HolderIndex(holder) == ParseNat(SubSeq(holder, 3, Len(holder)), 0)

\* C4: within every Expression.resolve the i-th temp holder allocated is
\* "$s" followed by i-1, whatever the counter stood at before the call,
\* and the counter ends at the number of temps allocated.
C4_TempNumbering ==
    phase \in {"session", "ended"} /\ resolves > 0 =>
        /\ counter = Len(allocs)
        /\ \A i \in 1..Len(allocs) :
              /\ SubSeq(allocs[i], 1, 2) = <<"$", "s">>
              /\ Len(allocs[i]) > 2
              /\ \A j \in 3..Len(allocs[i]) : allocs[i][j] \in DigitChars
              /\ HolderIndex(allocs[i]) = i - 1

\* C4 witness: a resolve that allocated two temps after an earlier call
\* had left the counter at two, the result score having taken "$s2".
C4_Witness ==
    /\ resolves > 1
    /\ Len(allocs) = 2
    /\ result = ScoreSource(<<"$", "s", "2">>, temp_objective)

\* C6: create(v) returns the holder "$" + v with the const objective and
\* records v; the const set holds every integer a const score was ever
\* handed out for, at every point of the session.
C6_ConstInterning ==
    /\ handed \subseteq constants
    /\ created.called =>
          /\ created.value \in constants
          /\ created.name = <<"$">> \o FormatInt(created.value)
          /\ ParseInt(Tail(created.name)) = created.value
          /\ created.objective = const_objective

\* C6 witness: a const score created directly after a resolve interned
\* another integer.
C6_Witness ==
    /\ resolves > 0
    /\ created.called
    /\ created.value = -2
    /\ {-2, 7} \subseteq constants
    /\ phase = "session"

\* The init command of the integer v.
InitCommandOf(v) == SetCommand(<<"$">> \o FormatInt(v), const_objective, FormatInt(v))

C10_DryRun == disable_commands => commands = <<>>

\* C10 witness: a resolve and an init() call made with disable_commands set.
C10_Witness ==
    /\ disable_commands
    /\ resolves > 0
    /\ called_init

\* The places of args where a name the pattern accepts is directly
\* followed by the const objective.
ConstPairs(args) ==
    { p \in 1..(Len(args) - 1) :
          /\ args[p].node = "AstPlayerName"
          /\ pattern_match(args[p].value) # NoMatch
          /\ args[p + 1] = objective_node }

\* C8: the checker calls back with the integer of every name that matches
\* the pattern and is directly followed by the const objective, also when
\* the command holds several such pairs.
C8_DetectsEveryPair ==
    phase = "checked" =>
        \A p \in ConstPairs(arguments) :
            \E i \in 1..Len(callbacks) :
                callbacks[i] = ParseInt(pattern_match(arguments[p].value))

\* C8 witness: a checked command with two pairs of different constants.
C8_Witness ==
    /\ phase = "checked"
    /\ Cardinality({ ParseInt(pattern_match(arguments[p].value)) :
                        p \in ConstPairs(arguments) }) > 1

\* C9: for every name the pattern accepts, the init command generated for
\* the integer it registers has the hand-written name as holder, the const
\* objective, and that integer as value.
C9_RoundTrip ==
    phase = "ended" =>
        \A p \in ConstPairs(arguments) :
            \E i \in 1..Len(generated.commands) :
                /\ generated.commands[i].target =
                      <<arguments[p].value, const_objective>>
                /\ ParseInt(generated.commands[i].value) =
                      ParseInt(pattern_match(arguments[p].value))

\* C9 witness: the init function generated after a name with leading zeros
\* was checked.
C9_Witness ==
    /\ phase = "ended"
    /\ arguments = << AstPlayerName(<<"$", "0", "0", "7">>), objective_node >>
    /\ callbacks = <<7>>

\* C11: two resolve calls of one session with the same expression, the
\* same result argument and the same const set before the call inject the
\* same commands, however many calls were made in between.
C11_Deterministic ==
    \A i \in 1..Len(emitted) : \A j \in 1..Len(emitted) :
        /\ emitted[i].value = emitted[j].value
        /\ emitted[i].given = emitted[j].given
        /\ emitted[i].constants = emitted[j].constants
        => emitted[i].commands = emitted[j].commands

\* C11 witness: the same arithmetic expression resolved twice without a
\* result source, the const set unchanged in between.
C11_Witness ==
    /\ Len(emitted) = 2
    /\ emitted[1].value = emitted[2].value
    /\ emitted[1].value.cls = "U"
    /\ ~emitted[1].given /\ ~emitted[2].given
    /\ emitted[1].constants = emitted[2].constants

RECURSIVE CommandsOfCalls(_)
\* The commands of the recorded resolve calls, call after call.
CommandsOfCalls(calls) ==
    IF calls = <<>> THEN <<>>
    ELSE Head(calls).commands \o CommandsOfCalls(Tail(calls))

\* C14: the command list holds the commands of the resolve calls in call
\* order (with the function commands of init() where they were injected),
\* and the commands of one call follow the order of its optimized
\* operations.
C14_EmissionOrder ==
    /\ SelectSeq(commands, LAMBDA c : c.cmd # "function") = CommandsOfCalls(emitted)
    /\ \A k \in 1..Len(emitted) :
          /\ Len(emitted[k].commands) = Len(emitted[k].nodes)
          /\ \A i \in 1..Len(emitted[k].nodes) :
                emitted[k].commands[i] = SerializeOp(emitted[k].nodes[i])

\* C14 witness: two resolve calls of different expressions, each with more
\* than one command, and an init() call between them.
C14_Witness ==
    /\ Len(emitted) = 2
    /\ emitted[1].value # emitted[2].value
    /\ Len(emitted[1].commands) > 1
    /\ Len(emitted[2].commands) > 1
    /\ commands[Len(emitted[1].commands) + 1].cmd = "function"

\* The accessor kinds the claim lists as rejected for a readtype.
RejectedKinds(t) ==
    CASE t = "Compound" -> {"ListIndex"}
      [] t \in {"List", "IntArray"} -> {"NamedKey", "CompoundMatch"}
      [] t \in {"Int", "String"} -> AccessorKinds
      [] OTHER -> {}

\* The readtype of the source the i-th step of sub_path is applied to.
TypeAtStep(self, sub_path, i) ==
    IF i = 1 THEN readtype(self)
    ELSE IF sub_path[i - 1].found = "None" THEN "Any"
    ELSE sub_path[i - 1].found

\* C12: _access raises TypeError, and returns no source, exactly when the
\* first remaining accessor at some step is one the handler of the source
\* reached so far forbids: a list index on a compound, a named key or a
\* compound match on a list or array, anything on a number or a string;
\* otherwise it returns the source with every accessor appended.
C12_AccessGating ==
    call.op = "_access" =>
        LET rejected == \E i \in 1..Len(call.sub_path) :
                call.sub_path[i].kind
                    \in RejectedKinds(TypeAtStep(call.self, call.sub_path, i))
        IN  /\ rejected <=> (outcome.kind = "raised" /\ outcome.error = "TypeError")
            /\ ~rejected =>
                  /\ outcome.kind = "returned"
                  /\ outcome.value.path =
                        call.self.path \o
                        [i \in 1..Len(call.sub_path) |->
                            Accessor(call.sub_path[i].kind, call.sub_path[i].key)]

\* C12 witness: a named key into a compound that leads to a list, followed
\* by another named key, which the list rejects.
C12_Witness ==
    /\ call.op = "_access"
    /\ readtype(call.self) = "Compound"
    /\ Len(call.sub_path) = 2
    /\ call.sub_path[1] = Step("NamedKey", 0, "List")
    /\ call.sub_path[2].kind = "NamedKey"
    /\ outcome.kind = "raised"

\* An operand that is a data source whose readtype is not numeric.
NonNumericData(x) == x.cls = "DataSource" /\ ~is_numeric_type(readtype(x))

\* C13: an arithmetic operator with a data source of non-numeric readtype
\* (Any included) as either operand raises a type error and builds no
\* operation.
C13_ArithGating ==
    /\ call.op = "binary"
    /\ NonNumericData(call.left) \/ NonNumericData(call.right)
    => outcome.kind = "raised" /\ outcome.error = "TypeError"

\* C13 witness: a string-typed data source as the left operand of an
\* integer, which is refused.
C13_Witness ==
    /\ call.op = "binary"
    /\ call.left.cls = "DataSource"
    /\ readtype(call.left) = "String"
    /\ call.right.cls = "int"
    /\ outcome.kind = "raised"

\* The operations of the unrolled list that compute: all but Set.
IsArithmetic(op) == op.cls \in ArithOps \cup {"Min", "Max"}

IsTemp(src) == src.cls = "TempScoreSource"

\* Every arithmetic operation of ops works on a temp that an earlier Set
\* of the list initialised, and no operation writes to a constant.
TempDestinations(ops) ==
    /\ \A i \in 1..Len(ops) :
          ops[i].former.cls \notin {"ConstantScoreSource", "Literal", "int"}
    /\ \A i \in 1..Len(ops) :
          IsArithmetic(ops[i]) =>
              /\ IsTemp(ops[i].former)
              /\ \E j \in 1..(i - 1) :
                    ops[j].cls = "Set" /\ ops[j].former = ops[i].former

\* A temp is taken only for a former that is no temp: no Set copies one
\* temp to another, and every temp is initialised once.
ReusesTemps(ops) ==
    /\ \A i \in 1..Len(ops) :
          ~(ops[i].cls = "Set" /\ IsTemp(ops[i].former) /\ IsTemp(ops[i].latter))
    /\ \A i \in 1..Len(ops) : \A j \in 1..Len(ops) :
          /\ ops[i].cls = "Set" /\ ops[j].cls = "Set"
          /\ IsTemp(ops[i].former) /\ ops[i].former = ops[j].former
          => i = j

\* Every arithmetic operation has a temp of its own: the operation before
\* it is the Set that initialises the temp, and nothing earlier names it.
FreshTempEach(ops) ==
    \A i \in 1..Len(ops) :
        IsArithmetic(ops[i]) =>
            /\ i > 1
            /\ ops[i - 1].cls = "Set" /\ ops[i - 1].former = ops[i].former
            /\ \A j \in 1..(i - 2) :
                  ops[j].former # ops[i].former /\ ops[j].latter # ops[i].former

C16_RuleTotal ==
    phase = "ruled" /\ rule = "temp_var_collapsing" => first.err = "none"

\* C16 witness: the rule run over Set(t1, t0), Set(t0, t1) and an operation
\* that reads one of the two temps.
C16_Witness ==
    /\ phase = "ruled"
    /\ rule = "temp_var_collapsing"
    /\ Len(input) = 3
    /\ input[1] = Op("Set", Temp1, Temp0)
    /\ input[2] = Op("Set", Temp0, Temp1)
    /\ input[3] = Op("Multiply", ScoreB, Temp0)

RECURSIVE OperatorNodes(_)
\* The operator nodes of a user expression.
OperatorNodes(u) ==
    IF u.cls = "U" THEN {u} \cup OperatorNodes(u.l) \cup OperatorNodes(u.r)
    ELSE {}

RECURSIVE EvalNode(_, _)
\* The value of a built operation tree on a scoreboard state.
EvalNode(st, node) ==
    IF IsOperation(node)
    THEN Arith(node.cls, EvalNode(st, node.former), EvalNode(st, node.latter))
    ELSE Value(st, node)

\* The operands create was given are swapped in node, or kept, counting an
\* integer and the constant or literal made of it as the same operand.
OperandsOf(node, former, latter) ==
    /\ IF IsExpressionNode(former) THEN node.former = former
       ELSE /\ node.former.cls \in {"ConstantScoreSource", "Literal"}
            /\ Value(<<>>, node.former) = former.value
    /\ IF IsExpressionNode(latter) THEN node.latter = latter
       ELSE /\ node.latter.cls \in {"ConstantScoreSource", "Literal"}
            /\ Value(<<>>, node.latter) = latter.value

\* C17: in both revisions create swaps its operands exactly for Add and
\* Multiply with a first operand that is no operation and a second one
\* that is; every other call keeps the order given, and the tree built has
\* the value of the expression as written.
C17_SwapCommutative ==
    phase = "unrolled" =>
        /\ \A u \in OperatorNodes(expr) :
              LET swap == /\ u.op \in {"Add", "Multiply"}
                          /\ u.l.cls # "U"
                          /\ u.r.cls = "U"
                  pa == Ptr_Build(u.l)
                  pb == Ptr_Build(u.r)
                  ba == Bolt_Build(u.l)
                  bb == Bolt_Build(u.r)
              IN  /\ Ptr_create(u.op, pa, pb).cls = u.op
                  /\ Bolt_create(u.op, ba, bb).cls = u.op
                  /\ IF swap
                     THEN /\ OperandsOf(Ptr_create(u.op, pa, pb), pb, pa)
                          /\ OperandsOf(Bolt_create(u.op, ba, bb), bb, ba)
                     ELSE /\ OperandsOf(Ptr_create(u.op, pa, pb), pa, pb)
                          /\ OperandsOf(Bolt_create(u.op, ba, bb), ba, bb)
        /\ \A st \in UserStates :
              /\ EvalNode(st, Ptr_Build(expr)) = Eval(st, expr)
              /\ EvalNode(st, Bolt_Build(expr)) = Eval(st, expr)

\* C17 witness: a sum or product of a leaf and a difference, lowered: the
\* difference is computed first, the leaf applied to its temp.
C17_Witness ==
    /\ phase = "unrolled"
    /\ rev = "bolt"
    /\ expr.cls = "U" /\ expr.op \in {"Add", "Multiply"}
    /\ expr.l.cls = "int"
    /\ expr.r.cls = "U" /\ expr.r.op = "Subtract"
    /\ unrolled[2].cls = "Subtract"
    /\ unrolled[3].cls = expr.op
    /\ unrolled[3].latter = Literal_create(expr.l.value)

RECURSIVE IntLeaves(_)
\* The integers written in a user expression.
IntLeaves(u) ==
    IF u.cls = "U" THEN IntLeaves(u.l) \cup IntLeaves(u.r)
    ELSE IF u.cls = "int" THEN {u.value}
    ELSE {}

\* The operations of nodes whose latter is an integer, as a literal or as
\* a constant score.
WithConstant(nodes) ==
    SelectSeq(nodes, LAMBDA op : op.latter.cls \in {"int", "ConstantScoreSource"})

\* C18: in the list the older revision's optimize returns, the integer
\* operand of a Set, Add or Subtract is an integer literal with the value
\* written in the expression, negative ones included, and the integer
\* operand of a Multiply, Divide or Modulus is the constant score "$v" of
\* that value; no integer operand of the unrolled list is lost.
C18_OperandEncoding ==
    phase = "optimized" /\ rev = "pointers" =>
        /\ optimized.err = "none"
        /\ Len(WithConstant(optimized.nodes)) = Len(WithConstant(unrolled))
        /\ \A i \in 1..Len(optimized.nodes) :
              LET op == optimized.nodes[i]
              IN  /\ op.former.cls \notin {"int", "ConstantScoreSource"}
                  /\ op.cls \in {"Set", "Add", "Subtract"} =>
                        /\ op.latter.cls # "ConstantScoreSource"
                        /\ op.latter.cls = "int" => op.latter.value \in IntLeaves(expr)
                  /\ op.cls \in {"Multiply", "Divide", "Modulus"} =>
                        /\ op.latter.cls # "int"
                        /\ op.latter.cls = "ConstantScoreSource" =>
                              \E v \in IntLeaves(expr) :
                                  op.latter.scoreholder = <<"$">> \o FormatInt(v)

\* C18 witness: an optimized list of the older revision with a negative
\* literal in a Subtract and the constant score of the same integer in a
\* Multiply.
C18_Witness ==
    /\ phase = "optimized"
    /\ rev = "pointers"
    /\ \E i \in 1..Len(optimized.nodes) :
          /\ optimized.nodes[i].cls = "Subtract"
          /\ optimized.nodes[i].latter = IntOperand(-2)
    /\ \E i \in 1..Len(optimized.nodes) :
          /\ optimized.nodes[i].cls = "Multiply"
          /\ optimized.nodes[i].latter = ConstantScoreSource_create(-2)

\* The lists the data path may hold before the operations run.
DataLists == {<<>>, <<10>>, <<10, 20>>}

\* The value inserted, on a data state.
InsertedValue(ds, value) ==
    IF value.cls = "DataSource" THEN ds.other ELSE Eval(ds.scores, value)

\* Running ops makes the list one element longer, with v at the place the
\* index names and the elements it had in their order around it.
InsertsValue(ops, index, value) ==
    \A list \in DataLists : \A st \in UserStates :
        LET ds == DataState(list, 30, st)
            after == ExecData(ds, ops).list
            pos == InsertPosition(list, index)
        IN  pos \in 0..Len(list) =>
                /\ Len(after) = Len(list) + 1
                /\ after[pos + 1] = InsertedValue(ds, value)
                /\ SubSeq(after, 1, pos) \o SubSeq(after, pos + 2, Len(after)) = list

\* C19: unrolling an Insert, Append or Prepend of a data source or a
\* literal yields the operation alone; for any other value it yields the
\* value's operations, the insert of the placeholder 0 at the index and
\* the Set of the element at the index to the value's tail, in this order.
\* Run on a list the index lies in, the operations leave the list one
\* element longer with the value at the index, negative indices and the
\* -1 and 0 of Append and Prepend included.
C19_InsertLowering ==
    call.op = "insert" /\ list_index(operator_handler(call.node.former)) =>
        /\ outcome.kind = "returned"
        /\ LET ops == outcome.value
               node == call.node
           IN  /\ call.node.cls = "Append" => node.index = -1
               /\ call.node.cls = "Prepend" => node.index = 0
               /\ IF node.latter.cls \in {"DataSource", "Literal"}
                  THEN ops = << node >>
                  ELSE LET n == Len(ops)
                           l == Bolt_Operation_unroll(node.latter, 0)
                       IN  /\ n = Len(l.ops) + 2
                           /\ SubSeq(ops, 1, n - 2) = l.ops
                           /\ ops[n - 1] = InsertNode(node.cls, node.former,
                                                Literal_create(0), node.index)
                           /\ ops[n].cls = "Set"
                           /\ ops[n].latter = l.var
                           /\ ops[n].former.cls = "DataSource"
                           /\ ops[n].former.path =
                                 Append(node.former.path,
                                        Accessor("ListIndex", node.index))
               /\ InsertsValue(ops, node.index, call.value)

\* C19 witness: a product inserted at the index -2, lowered to its two
\* operations, the placeholder insert and the Set of the element.
C19_Witness ==
    /\ call.op = "insert"
    /\ call.node.cls = "Insert"
    /\ call.node.index = -2
    /\ call.value.cls = "U"
    /\ outcome.kind = "returned"
    /\ Len(outcome.value) = 4

RECURSIVE ChainLeaves(_)
\* The operands of a chain of Min / Max operations, left to right.
ChainLeaves(x) ==
    IF x.cls \in {"Min", "Max"} THEN ChainLeaves(x.former) \o ChainLeaves(x.latter)
    ELSE << x >>

RECURSIVE ChainClasses(_)
\* The classes of the operations of a chain.
ChainClasses(x) ==
    IF x.cls \in {"Min", "Max"}
    THEN {x.cls} \cup ChainClasses(x.former) \cup ChainClasses(x.latter)
    ELSE {}

\* How often x occurs in the sequence s.
Occurrences(s, x) == Cardinality({ i \in 1..Len(s) : s[i] = x })

\* C20: min / max of one to MaxValues arguments with a node among them,
\* given apart or as one iterable, returns a chain of Min / Max operations
\* that holds every node argument as often as it was given, and the host's
\* min / max of the integers as its only literal when there are integers;
\* a single node and nothing else does not fail.
C20_MinMaxFolding ==
    /\ call.op = "minmax"
    /\ \E i \in 1..Len(call.values) : IsExpressionNode(call.values[i])
    => /\ outcome.kind = "returned"
       /\ LET leaves == ChainLeaves(outcome.value)
              ints == { call.values[i].value :
                          i \in { j \in 1..Len(call.values) :
                                    ~IsExpressionNode(call.values[j]) } }
              literals == SelectSeq(leaves, LAMBDA x : x.cls \in {"Literal", "int"})
          IN  /\ ChainClasses(outcome.value) \subseteq {call.cls}
              /\ \A x \in {ScoreA, ScoreB} :
                    Occurrences(leaves, x) = Occurrences(call.values, x)
              /\ IF ints = {} THEN literals = <<>>
                 ELSE /\ Len(literals) = 1
                      /\ literals[1].value =
                            IF call.cls = "Min" THEN Least(ints) ELSE Greatest(ints)

\* C20 witness: min of one iterable that holds a single score.
C20_Witness ==
    /\ call.op = "minmax"
    /\ call.cls = "Min"
    /\ call.packed
    /\ call.values = << ScoreA >>
    /\ outcome.kind = "raised"

\* A score holder create_result handed out as the result of the call.
IsResultHolder(rec) ==
    /\ ~rec.given
    /\ rec.result.cls = "ScoreSource"
    /\ rec.result.objective = temp_objective

\* C21: a score holder create_result handed out as the result of one
\* resolve call is none of the temp holders a later resolve call of the
\* session allocates on the same objective.
C21_ResultKept ==
    \A i \in 1..Len(emitted) : \A j \in 1..Len(emitted) :
        i < j /\ IsResultHolder(emitted[i])
        => \A k \in 1..Len(emitted[j].allocs) :
              emitted[j].allocs[k] # emitted[i].result.scoreholder

\* C21 witness: the first call got its result holder from create_result,
\* and a later call allocated temps.
C21_Witness ==
    /\ Len(emitted) = 2
    /\ IsResultHolder(emitted[1])
    /\ emitted[2].allocs # <<>>

\* The counter an identifier carries: the digits after its "_".
IdentifierCounter(name) ==
    ParseNat(SubSeq(name, IndexOf(name, "_") + 1, Len(name)), 0)

\* How many of the first n identifiers were asked for in module path p.
RequestsIn(p, n) ==
    Cardinality({ k \in 1..n : identifiers[k].module = p })

\* With a context, the n-th identifier asked for while a module path is
\* current carries the counter n - 1 of that path.
CountsPerPath ==
    \A i \in 1..Len(identifiers) :
        /\ "_" \in { identifiers[i].name[k] : k \in 1..Len(identifiers[i].name) }
        /\ IdentifierCounter(identifiers[i].name)
               = RequestsIn(identifiers[i].module, i) - 1

\* C22: the identifiers one generator yields are pairwise distinct, with
\* a context and without one, and with a context each carries the number
\* of earlier requests in its module path.
C22_FreshIdentifiers ==
    /\ \A i \in 1..Len(identifiers) : \A j \in 1..Len(identifiers) :
          i # j => identifiers[i].name # identifiers[j].name
    /\ gen_ctx => CountsPerPath

\* C22 witness: a generator without a context was asked twice.
C22_Witness ==
    /\ ~gen_ctx
    /\ Len(identifiers) = 2

====
